---------------------------- MODULE Spec2Model ----------------------------
(***************************************************************************)
(* Booking dashboards of testTRAV.                                         *)
(*                                                                         *)
(* Pipeline A (app.py): upload -> read_csv -> shape check -> numeric       *)
(* coercion -> dropna -> analyze_booking_data -> rendering.                *)
(* Pipeline B (app2.py): upload -> read_csv -> column check ->             *)
(* process_data (label parsing, pivot) -> report.                          *)
(*                                                                         *)
(* Numbers read from the CSV are kept in thousandths (milli), numbers      *)
(* after DataFrame.round(2) in hundredths (centi), so that rounding is     *)
(* observable.  Text is a tuple of one-character strings, so that the      *)
(* regular expression and strptime matching can be computed.               *)
(***************************************************************************)
EXTENDS Integers, Sequences, FiniteSets, TLC

VARIABLES
    script,         \* which of the two programs runs: "app" or "app2"
    fileA,          \* app.py: uploaded_file (NoFile when None)
    pcA,            \* app.py: position inside main()
    dfA,            \* app.py: df inside main()
    analysis,       \* app.py: result of analyze_booking_data
    outA,           \* app.py: what main() has emitted through st.*, in order
    fileB,          \* app2.py: uploaded_file
    time_period,    \* app2.py: st.selectbox value
    pcB,            \* app2.py: position inside the upload handling
    pivot_table,    \* app2.py: pivot_table returned by process_data
    df_processed,   \* app2.py: df_sorted / df returned by process_data
    statsB,         \* app2.py: the figures shown: summary metrics and donut chart
    outB            \* app2.py: what the script has emitted through st.*, in order

varsA == <<fileA, pcA, dfA, analysis, outA>>
varsB == <<fileB, time_period, pcB, pivot_table, df_processed, statsB, outB>>
vars == <<script, fileA, pcA, dfA, analysis, outA,
          fileB, time_period, pcB, pivot_table, df_processed, statsB, outB>>

\* Largest number of data rows of an uploaded file (pipeline A / pipeline B).
MaxRowsA == 3
MaxRowsB == 3

-----------------------------------------------------------------------------
(* Generic helpers *)

Abs(x) == IF x < 0 THEN -x ELSE x

Range(s) == {s[i] : i \in DOMAIN s}

RECURSIVE SumSeq(_)
SumSeq(s) == IF s = <<>> THEN 0 ELSE Head(s) + SumSeq(Tail(s))

\* All sequences over S of length 0..n
SeqsUpTo(S, n) == UNION {[1..k -> S] : k \in 0..n}

\* The permutations of 1..n, as functions
Perms(n) == {p \in [1..n -> 1..n] : \A i, j \in 1..n : i # j => p[i] # p[j]}

NoFile == [kind |-> "none"]
None == [kind |-> "none"]

-----------------------------------------------------------------------------
(* Pipeline A : cells, rows and the uploaded file *)

Num(m) == [kind |-> "num", milli |-> m]     \* a cell that parses as a number
Text == [kind |-> "text", milli |-> 0]      \* a cell that is not a number
NaN == [kind |-> "na", milli |-> 0]         \* a missing cell / NaN

NA == "NaN"                                 \* a missing country cell

\* Country names in the order groupby(sort=True) puts them.
CountryOrder == <<"France", "Italy", "Spain">>
CountryRank(c) == CHOOSE i \in DOMAIN CountryOrder : CountryOrder[i] = c

RowA(c, g, n) == [country |-> c, guests |-> g, nights |-> n]

\* The data rows an upload is made of.
RowPoolA ==
    { RowA("France", Num(2000), Num(3000)),
      RowA("France", Num(1000), Num(5000)),
      RowA("Spain",  Num(4000), Num(2000)),
      RowA("Spain",  Text,      Num(2000)),
      RowA("Italy",  Num(1000), Text),
      RowA("Italy",  Num(1234), Num(2000)),
      RowA(NA,       Num(2000), Num(2000)),
      RowA("Italy",  NaN,       Num(1000)) }

\* kind "empty": a file without a header line (read_csv raises);
\* kind "csv": a header of ncols columns and the data rows.
FilesA ==
    {[kind |-> "empty", ncols |-> 0, rows |-> <<>>]}
    \cup {[kind |-> "csv", ncols |-> n, rows |-> <<>>] : n \in {2, 4}}
    \cup {[kind |-> "csv", ncols |-> 3, rows |-> r] : r \in SeqsUpTo(RowPoolA, MaxRowsA)}

-----------------------------------------------------------------------------
(* Pipeline A : cleaning (app.py, main) *)

\* pd.to_numeric(errors='coerce') that fills what does not parse with 0
ToNumericZero(cell) == IF cell.kind = "num" THEN cell ELSE Num(0)

\* pd.to_numeric(column, errors='coerce') on one cell
ToNumeric(cell) == IF cell.kind = "num" THEN cell ELSE NaN

Coerce(df) ==
    [i \in DOMAIN df |->
        [df[i] EXCEPT !.guests = ToNumeric(@), !.nights = ToNumeric(@)]]

\* dropna(subset=['Guests', 'Room Nights']): a missing country is kept
DropNaNumericOnly(df) ==
    SelectSeq(df, LAMBDA r : ~(r.guests.kind = "na" \/ r.nights.kind = "na"))

\* a row DataFrame.dropna() removes: any of its three cells missing
IsNaRow(r) == r.country = NA \/ r.guests.kind = "na" \/ r.nights.kind = "na"

DropNa(df) == SelectSeq(df, LAMBDA r : ~IsNaRow(r))

-----------------------------------------------------------------------------
(* Pipeline A : analyze_booking_data *)

\* n/d rounded down to an integer
RoundDown(n, d) == IF d = 0 THEN 0 ELSE n \div d

\* n/d rounded to the nearest integer, ties to even (numpy rint), n >= 0, d > 0.
\* With n in milli and d = 10 * k this is (n / k) in centi: DataFrame.round(2).
Round2(n, d) ==
    IF d = 0 THEN 0
    ELSE LET q == n \div d
             r == n % d
         IN  IF 2 * r < d THEN q
             ELSE IF 2 * r > d THEN q + 1
             ELSE IF q % 2 = 0 THEN q ELSE q + 1

\* the rows of one group
GroupRows(df, c) == SelectSeq(df, LAMBDA r : r.country = c)

\* 'count' : the cells of the column that are not NaN
CountCol(rows, col) == Cardinality({i \in DOMAIN rows : rows[i][col].kind = "num"})

\* 'sum' : NaN cells are skipped
SumCol(rows, col) ==
    SumSeq([i \in DOMAIN rows |->
               IF rows[i][col].kind = "num" THEN rows[i][col].milli ELSE 0])

\* groupby keys: the distinct countries, NaN keys dropped, in sorted order
GroupKeys(df) == SelectSeq(CountryOrder, LAMBDA c : \E i \in DOMAIN df : df[i].country = c)

\* one row of groupby(...).agg({...}).round(2) with the flattened column names
AggRow(df, c) ==
    LET rows == GroupRows(df, c)
    IN  [country         |-> c,
         Total_Bookings  |-> CountCol(rows, "guests"),
         Avg_Guests      |-> Round2(SumCol(rows, "guests"), 10 * CountCol(rows, "guests")),
         Total_Guests    |-> Round2(SumCol(rows, "guests"), 10),
         Avg_Stay_Nights |-> Round2(SumCol(rows, "nights"), 10 * CountCol(rows, "nights")),
         Total_Nights    |-> Round2(SumCol(rows, "nights"), 10)]

\* country_analysis after reset_index(): one row per key, in key order
Grouped(df) == [i \in DOMAIN GroupKeys(df) |-> AggRow(df, GroupKeys(df)[i])]

Reorder(t, p) == [i \in DOMAIN t |-> t[p[i]]]

SortValuesAscending(t) ==
    {Reorder(t, p) : p \in {q \in Perms(Len(t)) :
        \A i, j \in 1..Len(t) :
            i < j => t[q[i]].Total_Bookings <= t[q[j]].Total_Bookings}}

\* sort_values('Total_Bookings', ascending=False) with the default
\* kind='quicksort': the result is in descending order of the key; the
\* relative order of rows with equal keys is not fixed by the sort.
SortValuesDesc(t) ==
    {Reorder(t, p) : p \in {q \in Perms(Len(t)) :
        \A i, j \in 1..Len(t) :
            i < j => t[q[i]].Total_Bookings >= t[q[j]].Total_Bookings}}

TopCountry(cd) == IF cd = <<>> THEN "N/A" ELSE cd[1].country

\* the dict analyze_booking_data returns, for one outcome cd of the sort
Analysis(df, cd) ==
    [kind            |-> "analysis",
     total_bookings  |-> Len(df),
     total_countries |-> Len(cd),
     total_guests    |-> SumCol(df, "guests"),
     avg_stay        |-> [sum |-> SumCol(df, "nights"), n |-> CountCol(df, "nights")],
     country_data    |-> cd,
     top_country     |-> TopCountry(cd)]

-----------------------------------------------------------------------------
(* Pipeline A : main() *)

RenderedA == <<"success", "metrics", "map", "bar_chart", "table", "download">>

\* st.file_uploader returns a file
UploadA ==
    /\ script = "app"
    /\ pcA = "idle"
    /\ \E f \in FilesA : fileA' = f
    /\ pcA' = "read"
    /\ UNCHANGED <<dfA, analysis, outA>>
    /\ UNCHANGED <<script, varsB>>

\* pd.read_csv and the check of the column count, then the positional rename
ReadA ==
    /\ script = "app"
    /\ pcA = "read"
    /\ IF fileA.kind = "empty"
       THEN /\ outA' = Append(outA, "error_processing")
            /\ pcA' = "done"
            /\ dfA' = dfA
       ELSE IF fileA.ncols # 3
       THEN /\ outA' = Append(outA, "error_format")
            /\ pcA' = "done"
            /\ dfA' = dfA
       ELSE /\ dfA' = fileA.rows
            /\ pcA' = "clean"
            /\ outA' = outA
    /\ UNCHANGED <<fileA, analysis>>
    /\ UNCHANGED <<script, varsB>>

\* the cleaning without the return on an empty frame
CleanANoEmptyCheck ==
    /\ script = "app"
    /\ pcA = "clean"
    /\ dfA' = DropNa(Coerce(dfA))
    /\ pcA' = "analyze"
    /\ UNCHANGED <<fileA, analysis, outA>>
    /\ UNCHANGED <<script, varsB>>

\* to_numeric on both columns, dropna, and the check for an empty frame
CleanA ==
    /\ script = "app"
    /\ pcA = "clean"
    /\ dfA' = DropNa(Coerce(dfA))
    /\ IF dfA' = <<>>
       THEN /\ outA' = Append(outA, "error_empty")
            /\ pcA' = "done"
       ELSE /\ outA' = outA
            /\ pcA' = "analyze"
    /\ UNCHANGED <<fileA, analysis>>
    /\ UNCHANGED <<script, varsB>>

\* analysis = analyze_booking_data(df)
AnalyzeA ==
    /\ script = "app"
    /\ pcA = "analyze"
    /\ \E cd \in SortValuesDesc(Grouped(dfA)) : analysis' = Analysis(dfA, cd)
    /\ pcA' = "render"
    /\ UNCHANGED <<fileA, dfA, outA>>
    /\ UNCHANGED <<script, varsB>>

\* the success message, metric cards, map, chart, table and download button
RenderA ==
    /\ script = "app"
    /\ pcA = "render"
    /\ outA' = outA \o RenderedA
    /\ pcA' = "done"
    /\ UNCHANGED <<fileA, dfA, analysis>>
    /\ UNCHANGED <<script, varsB>>

-----------------------------------------------------------------------------
(* Pipeline B : text *)

Digits == <<"0", "1", "2", "3", "4", "5", "6", "7", "8", "9">>
IsDigit(ch) == \E i \in DOMAIN Digits : Digits[i] = ch
DigitVal(ch) == (CHOOSE i \in DOMAIN Digits : Digits[i] = ch) - 1

UpperCase == <<"A", "B", "C", "D", "E", "F", "G", "H", "I", "J", "K", "L", "M", "N", "O", "P", "Q", "R", "S", "T", "U", "V", "W", "X", "Y", "Z">>
LowerCase == <<"a", "b", "c", "d", "e", "f", "g", "h", "i", "j", "k", "l", "m", "n", "o", "p", "q", "r", "s", "t", "u", "v", "w", "x", "y", "z">>
Lower(ch) ==
    IF \E i \in DOMAIN UpperCase : UpperCase[i] = ch
    THEN LowerCase[CHOOSE i \in DOMAIN UpperCase : UpperCase[i] = ch]
    ELSE ch
LowerText(t) == [i \in DOMAIN t |-> Lower(t[i])]

IsSpace(ch) == ch = " "

\* str.strip()
Strip(t) ==
    LET keep == {i \in DOMAIN t : ~IsSpace(t[i])}
    IN  IF keep = {} THEN <<>>
        ELSE SubSeq(t, CHOOSE i \in keep : \A j \in keep : i <= j,
                       CHOOSE i \in keep : \A j \in keep : j <= i)

\* the index after the longest run of white space (\s+, \s*) starting at i
SpacesEnd(t, i) ==
    CHOOSE j \in i..(Len(t) + 1) :
        /\ \A k \in i..(j - 1) : IsSpace(t[k])
        /\ (j = Len(t) + 1 \/ ~IsSpace(t[j]))

\* the index after the longest run of digits (\d+) starting at i
DigitsEnd(t, i) ==
    CHOOSE j \in i..(Len(t) + 1) :
        /\ \A k \in i..(j - 1) : IsDigit(t[k])
        /\ (j = Len(t) + 1 \/ ~IsDigit(t[j]))

\* int() of a run of digits
RECURSIVE ToInt(_)
ToInt(ds) ==
    IF ds = <<>> THEN 0
    ELSE 10 * ToInt(SubSeq(ds, 1, Len(ds) - 1)) + DigitVal(ds[Len(ds)])

-----------------------------------------------------------------------------
(* Pipeline B : calendar (datetime ordinals: 0001-01-01 is day 1) *)

IsLeap(y) == y % 4 = 0 /\ (y % 100 # 0 \/ y % 400 = 0)

DaysBeforeYear(y) ==
    LET p == y - 1 IN p * 365 + (p \div 4) - (p \div 100) + (p \div 400)

DaysBeforeMonthTable == <<0, 31, 59, 90, 120, 151, 181, 212, 243, 273, 304, 334>>

DaysBeforeMonth(y, m) ==
    DaysBeforeMonthTable[m] + (IF m > 2 /\ IsLeap(y) THEN 1 ELSE 0)

Ordinal(y, m, d) == DaysBeforeYear(y) + DaysBeforeMonth(y, m) + d

\* Monday is 0
Weekday(ord) == (ord + 6) % 7

\* the years a nanosecond Timestamp holds for every day of the year
InTimestampRange(y) == y \in 1678..2261

NaT == [ok |-> FALSE, ord |-> 0]
Instant(o) == [ok |-> TRUE, ord |-> o]

-----------------------------------------------------------------------------
(* Pipeline B : period labels (process_data) *)

WeekWord == <<"W", "e", "e", "k">>

MonthAbbr == <<<<"j", "a", "n">>,
              <<"f", "e", "b">>,
              <<"m", "a", "r">>,
              <<"a", "p", "r">>,
              <<"m", "a", "y">>,
              <<"j", "u", "n">>,
              <<"j", "u", "l">>,
              <<"a", "u", "g">>,
              <<"s", "e", "p">>,
              <<"o", "c", "t">>,
              <<"n", "o", "v">>,
              <<"d", "e", "c">>>>

MonthNumber(t) == CHOOSE m \in DOMAIN MonthAbbr : MonthAbbr[m] = LowerText(t)

\* re.match(r'Week\s+(\d+)\s+(\d{4})', t): anchored at the start of t only,
\* whatever follows the four digits is not looked at
WeekMatch(t) ==
    IF Len(t) < 4 \/ SubSeq(t, 1, 4) # WeekWord THEN [ok |-> FALSE]
    ELSE LET b == SpacesEnd(t, 5)
             c == DigitsEnd(t, b)
             d == SpacesEnd(t, c)
         IN  IF b > 5 /\ c > b /\ d > c /\ d + 3 <= Len(t)
                 /\ \A k \in d..(d + 3) : IsDigit(t[k])
             THEN [ok |-> TRUE, week |-> ToInt(SubSeq(t, b, c - 1)),
                   year |-> ToInt(SubSeq(t, d, d + 3))]
             ELSE [ok |-> FALSE]

\* pd.to_datetime(f'{year}-W{week_num:02d}-1', format='%Y-W%W-%w'):
\* %Y takes four digits (a year below 1000 is printed with fewer), %W takes
\* 00..53; the Monday of that week, days before the first Monday being week 0
WeekToDatetime(year, week) ==
    IF year < 1000 \/ week > 53 \/ ~InTimestampRange(year) THEN NaT
    ELSE LET jan1 == Ordinal(year, 1, 1)
             first_weekday == Weekday(jan1)
             week_0_length == (7 - first_weekday) % 7
             julian == IF week = 0 THEN 1 - first_weekday
                       ELSE 1 + week_0_length + 7 * (week - 1)
         IN  Instant(jan1 + julian - 1)

\* parse_week(week_str); the empty text is a missing cell (pd.isna)
parse_week(label) ==
    IF label = <<>> THEN NaT
    ELSE LET m == WeekMatch(Strip(label))
         IN  IF m.ok THEN WeekToDatetime(m.year, m.week) ELSE NaT

\* pd.to_datetime(label, format='%b %Y', errors='coerce'): the whole text must
\* be an abbreviated month name (any case), white space, four digits
parse_month(label) ==
    IF Len(label) < 3 THEN NaT
    ELSE IF ~(\E m \in DOMAIN MonthAbbr : MonthAbbr[m] = LowerText(SubSeq(label, 1, 3)))
    THEN NaT
    ELSE LET b == SpacesEnd(label, 4)
         IN  IF b > 4 /\ b + 3 = Len(label) /\ \A k \in b..(b + 3) : IsDigit(label[k])
             THEN LET year == ToInt(SubSeq(label, b, b + 3))
                  IN  IF InTimestampRange(year)
                      THEN Instant(Ordinal(year, MonthNumber(SubSeq(label, 1, 3)), 1))
                      ELSE NaT
             ELSE NaT

-----------------------------------------------------------------------------
(* Pipeline B : rows and the uploaded file *)

\* the labels the uploaded rows carry, as texts
L_W1 == <<"W", "e", "e", "k", " ", "1", " ", "2", "0", "2", "4">>
L_W01 == <<"W", "e", "e", "k", " ", "0", "1", " ", "2", "0", "2", "4">>
L_W10 == <<"W", "e", "e", "k", " ", "1", "0", " ", "2", "0", "2", "4">>
L_W99 == <<"W", "e", "e", "k", " ", "9", "9", " ", "2", "0", "2", "4">>
L_WFoo == <<"F", "o", "o", " ", "2", "0", "2", "4">>
L_WTrail == <<"W", "e", "e", "k", " ", "2", " ", "2", "0", "2", "4", "x">>
L_W52 == <<"W", "e", "e", "k", " ", "5", "2", " ", "2", "0", "2", "3">>
L_MJan == <<"J", "a", "n", " ", "2", "0", "2", "4">>
L_MMar == <<"M", "a", "r", " ", "2", "0", "2", "4">>
L_MJanLower == <<"j", "a", "n", " ", "2", "0", "2", "4">>
L_MIso == <<"2", "0", "2", "4", "-", "0", "1">>
L_MDec == <<"D", "e", "c", " ", "2", "0", "2", "3">>
Missing == <<>>                             \* an empty cell (NaN)

RowB(w, m, st) == [week |-> w, month |-> m, status |-> st]

\* The data rows an upload is made of.
RowPoolB ==
    { RowB(L_W1,     L_MJan,      "Confirmed"),
      RowB(L_W10,    L_MMar,      "Cancelled"),
      RowB(L_W01,    L_MJanLower, NA),
      RowB(L_W99,    L_MIso,      "Confirmed"),
      RowB(L_WFoo,   L_MDec,      "Cancelled"),
      RowB(L_WTrail, L_MJan,      "Rejected"),
      RowB(L_W52,    Missing,     "Confirmed"),
      RowB(Missing,  L_MMar,      "Confirmed") }

RequiredColumns == {"Booking Week", "Booking Month", "Booking Status"}

\* kind "empty": a file without a header line (read_csv raises);
\* kind "csv": the required columns the header has, and the data rows.
FilesB ==
    {[kind |-> "empty", cols |-> {}, rows |-> <<>>]}
    \cup {[kind |-> "csv", cols |-> c, rows |-> <<>>] :
             c \in {{}, {"Booking Week", "Booking Status"}}}
    \cup {[kind |-> "csv", cols |-> RequiredColumns, rows |-> r] :
             r \in SeqsUpTo(RowPoolB, MaxRowsB)}

-----------------------------------------------------------------------------
(* Pipeline B : process_data *)

TimeColumn(tp) == IF tp = "Week" THEN "week" ELSE "month"

\* df['Time_Date'] = ...
WithTimeDate(df, tp) ==
    [i \in DOMAIN df |->
        [week |-> df[i].week, month |-> df[i].month, status |-> df[i].status,
         Time_Date |-> IF tp = "Week" THEN parse_week(df[i].week)
                       ELSE parse_month(df[i].month)]]

\* df.dropna(subset=['Time_Date'])
DropNaT(df) == SelectSeq(df, LAMBDA r : r.Time_Date.ok)

\* the rows of df at the indices I, in order
SubSeqAt(df, I) ==
    LET F[k \in 0..Len(df)] ==
            IF k = 0 THEN <<>>
            ELSE IF k \in I THEN Append(F[k - 1], df[k]) ELSE F[k - 1]
    IN  F[Len(df)]

\* the input order kept: no sort at all
NoSort(df) == {df}

\* sort_values('Time_Date') with the default kind='quicksort': ascending
\* Time_Date; the relative order of rows with equal Time_Date is not fixed
SortByTime(df) ==
    {Reorder(df, p) : p \in {q \in Perms(Len(df)) :
        \A i, j \in 1..Len(df) :
            i < j => df[q[i]].Time_Date.ord <= df[q[j]].Time_Date.ord}}

\* no de-duplication: every row is kept
KeepAllRows(df, col) == df

\* drop_duplicates(subset=[col]): the first row of every label
DropDuplicates(df, col) ==
    SubSeqAt(df, {i \in DOMAIN df : \A j \in 1..(i - 1) : df[j][col] # df[i][col]})

\* groupby(col).size(): the rows of the label, whatever their status
GroupSizeAnyStatus(df, col, l, st) ==
    Cardinality({i \in DOMAIN df : df[i][col] = l /\ df[i].status # NA})

\* groupby([col, 'Booking Status']).size(): rows with a missing key are in no group
GroupSize(df, col, l, st) ==
    Cardinality({i \in DOMAIN df : df[i][col] = l /\ df[i].status = st})

SummaryRows(df) == {i \in DOMAIN df : df[i].status # NA}

\* pivot(...) without fillna(0): a combination that does not occur has no cell
PivotNoFill(df, col) ==
    LET labels == {df[i][col] : i \in SummaryRows(df)}
        stats  == {df[i].status : i \in SummaryRows(df)}
    IN  [index   |-> labels,
         columns |-> stats,
         cells   |-> [l \in labels |->
                        [st \in {x \in stats : GroupSize(df, col, l, x) > 0} |->
                            GroupSize(df, col, l, st)]]]

\* bookings_summary.pivot(index=col, columns='Booking Status',
\* values='Count').fillna(0); index is the set of labels of the summary
Pivot(df, col) ==
    LET labels == {df[i][col] : i \in SummaryRows(df)}
        stats  == {df[i].status : i \in SummaryRows(df)}
    IN  [index   |-> labels,
         columns |-> stats,
         cells   |-> [l \in labels |-> [st \in stats |-> GroupSize(df, col, l, st)]]]

\* pivot_table.reindex(sorted_periods, fill_value=0)
Reindex(pv, sorted_periods) ==
    [index   |-> sorted_periods,
     columns |-> pv.columns,
     cells   |-> [l \in Range(sorted_periods) |->
                    IF l \in pv.index THEN pv.cells[l]
                    ELSE [st \in pv.columns |-> 0]]]

\* pd.DataFrame()
EmptyFrame == [index |-> <<>>, columns |-> {}, cells |-> <<>>]

\* DataFrame.empty: one of the axes has length 0
IsEmptyFrame(pv) == pv.index = <<>> \/ pv.columns = {}

\* the results process_data(df, time_period) can return, one for every
\* outcome of its sorts: [pivot_table, df_sorted]
process_data(df, tp) ==
    LET col == TimeColumn(tp)
        kept == DropNaT(WithTimeDate(df, tp))
    IN  IF kept = <<>>
        THEN {[pivot_table |-> EmptyFrame, df_sorted |-> kept]}
        ELSE UNION {
               LET pv == Pivot(df_sorted, col)
               IN  IF pv.index = {} \/ pv.columns = {}
                   THEN {[pivot_table |-> EmptyFrame, df_sorted |-> df_sorted]}
                   ELSE {[pivot_table |->
                             Reindex(pv, [i \in DOMAIN t |-> t[i][col]]),
                          df_sorted |-> df_sorted] :
                         t \in SortByTime(DropDuplicates(df_sorted, col))}
               : df_sorted \in SortByTime(kept)}

-----------------------------------------------------------------------------
(* Pipeline B : the upload handling of app2.py *)

\* Series.value_counts(): the count of every status that occurs, NaN left out
ValueCounts(df) ==
    [st \in {df[i].status : i \in DOMAIN df} \ {NA} |->
        Cardinality({i \in DOMAIN df : df[i].status = st})]

RenderedB == <<"metrics", "chart", "download", "table">>

\* st.file_uploader returns a file; the value of the time period selectbox
UploadB ==
    /\ script = "app2"
    /\ pcB = "idle"
    /\ \E f \in FilesB : fileB' = f
    /\ \E tp \in {"Month", "Week"} : time_period' = tp
    /\ pcB' = "read"
    /\ UNCHANGED <<pivot_table, df_processed, statsB, outB>>
    /\ UNCHANGED <<script, varsA>>

\* st.file_uploader returns None: the script ends and has emitted nothing
NoUploadB ==
    /\ script = "app2"
    /\ pcB = "idle"
    /\ pcB' = "done"
    /\ UNCHANGED <<fileB, time_period, pivot_table, df_processed, statsB, outB>>
    /\ UNCHANGED <<script, varsA>>

\* pd.read_csv and the check of the required columns.  The prompt of the
\* else clause of the try statement follows every body that did not raise.
ReadB ==
    /\ script = "app2"
    /\ pcB = "read"
    /\ IF fileB.kind = "empty"
       THEN /\ outB' = Append(outB, "error_processing")
            /\ pcB' = "done"
       ELSE IF ~(RequiredColumns \subseteq fileB.cols)
       THEN /\ outB' = outB \o <<"error_columns", "info_upload_prompt">>
            /\ pcB' = "done"
       ELSE /\ outB' = outB \o <<"header_settings", "selectbox">>
            /\ pcB' = "process"
    /\ UNCHANGED <<fileB, time_period, pivot_table, df_processed, statsB>>
    /\ UNCHANGED <<script, varsA>>

\* pivot_table, df_processed, time_column = process_data(df, time_period)
ProcessB ==
    /\ script = "app2"
    /\ pcB = "process"
    /\ \E res \in process_data(fileB.rows, time_period) :
          /\ pivot_table' = res.pivot_table
          /\ df_processed' = res.df_sorted
    /\ pcB' = "report"
    /\ UNCHANGED <<fileB, time_period, statsB, outB>>
    /\ UNCHANGED <<script, varsA>>

\* the report with the summary metrics shown before the pivot is looked at
ReportBMetricsFirst ==
    /\ script = "app2"
    /\ pcB = "report"
    /\ outB' = outB \o <<"metrics">> \o
                (IF IsEmptyFrame(pivot_table)
                 THEN <<"warning_no_valid_data", "info_expected_format">>
                 ELSE <<"chart", "download", "table">>) \o <<"info_upload_prompt">>
    /\ statsB' = statsB
    /\ pcB' = "done"
    /\ UNCHANGED <<fileB, time_period, pivot_table, df_processed>>
    /\ UNCHANGED <<script, varsA>>

\* the warning for an empty pivot, or the metrics, charts, downloads and table
ReportB ==
    /\ script = "app2"
    /\ pcB = "report"
    /\ IF IsEmptyFrame(pivot_table)
       THEN /\ outB' = outB \o <<"warning_no_valid_data", "info_expected_format",
                                 "info_upload_prompt">>
            /\ statsB' = statsB
       ELSE /\ outB' = outB \o RenderedB \o <<"info_upload_prompt">>
            /\ statsB' = [kind           |-> "stats",
                          total_bookings |-> Len(fileB.rows),
                          status_totals  |-> ValueCounts(fileB.rows),
                          donut_total    |-> Len(df_processed),
                          donut_totals   |-> ValueCounts(df_processed)]
    /\ pcB' = "done"
    /\ UNCHANGED <<fileB, time_period, pivot_table, df_processed>>
    /\ UNCHANGED <<script, varsA>>

InitA ==
    /\ fileA = NoFile
    /\ pcA = "idle"
    /\ dfA = <<>>
    /\ analysis = None
    /\ outA = <<>>

InitB ==
    /\ fileB = NoFile
    /\ time_period = "Month"
    /\ pcB = "idle"
    /\ pivot_table = None
    /\ df_processed = <<>>
    /\ statsB = None
    /\ outB = <<>>

Init == script \in {"app", "app2"} /\ InitA /\ InitB

Next ==
    \/ UploadA \/ ReadA \/ CleanA \/ AnalyzeA \/ RenderA
    \/ UploadB \/ NoUploadB \/ ReadB \/ ProcessB \/ ReportB

Spec == Init /\ [][Next]_vars

-----------------------------------------------------------------------------
(* Properties of pipeline A *)

\* main() is past the cleaning: dfA is the cleaned frame
CleanedA ==
    \/ pcA \in {"analyze", "render"}
    \/ pcA = "done" /\ fileA.kind = "csv" /\ fileA.ncols = 3

Analysed == analysis.kind = "analysis"

CountryData == IF Analysed THEN analysis.country_data ELSE <<>>

\* C1: the Total_Bookings of the country rows add up to the number of cleaned
\* rows, which is also the reported total_bookings.
C1_CountsSumToCleanedRows ==
    Analysed =>
        /\ SumSeq([i \in DOMAIN CountryData |-> CountryData[i].Total_Bookings]) = Len(dfA)
        /\ analysis.total_bookings = Len(dfA)

C1_Witness ==
    /\ pcA = "done"
    /\ Analysed
    /\ Len(dfA) = 3
    /\ Len(fileA.rows) = 3
    /\ Len(CountryData) = 2

\* the exact sum, in milli, of a column over the cleaned rows of country c
ExactSum(c, col) ==
    SumSeq([i \in DOMAIN dfA |-> IF dfA[i].country = c THEN dfA[i][col].milli ELSE 0])

RowCount(c) == Cardinality({i \in DOMAIN dfA : dfA[i].country = c})

\* x (in centi) is num (in milli) divided by k, to 2 decimals
IsRoundedTo2(x, num, k) == 2 * Abs(x * 10 * k - num) <= 10 * k

Scenario1 ==
    << RowA("France", Num(2000), Num(3000)),
       RowA("France", Num(1000), Num(5000)),
       RowA("Spain",  Num(4000), Num(2000)) >>

Scenario1Holds ==
    dfA = Scenario1 =>
        Range(CountryData) =
            { [country |-> "France", Total_Bookings |-> 2, Avg_Guests |-> 150,
               Total_Guests |-> 300, Avg_Stay_Nights |-> 400, Total_Nights |-> 800],
              [country |-> "Spain", Total_Bookings |-> 1, Avg_Guests |-> 400,
               Total_Guests |-> 400, Avg_Stay_Nights |-> 200, Total_Nights |-> 200] }

OneRowPerCountry ==
    /\ \A c \in {dfA[i].country : i \in DOMAIN dfA} :
          Cardinality({k \in DOMAIN CountryData : CountryData[k].country = c}) = 1
    /\ \A k \in DOMAIN CountryData :
          CountryData[k].country \in {dfA[i].country : i \in DOMAIN dfA}

CountsAndMeans ==
    \A k \in DOMAIN CountryData :
        LET r == CountryData[k]
            c == r.country
        IN  /\ r.Total_Bookings = RowCount(c)
            /\ IsRoundedTo2(r.Avg_Guests, ExactSum(c, "guests"), RowCount(c))
            /\ IsRoundedTo2(r.Avg_Stay_Nights, ExactSum(c, "nights"), RowCount(c))

\* C2 as stated: one row per country with the count, the exact guest and night
\* sums, and the means to 2 decimals.
C2_ExactSums ==
    Analysed =>
        /\ OneRowPerCountry
        /\ CountsAndMeans
        /\ \A k \in DOMAIN CountryData :
              /\ CountryData[k].Total_Guests * 10 = ExactSum(CountryData[k].country, "guests")
              /\ CountryData[k].Total_Nights * 10 = ExactSum(CountryData[k].country, "nights")
        /\ Scenario1Holds

\* C2 (amended): one row per country with the count, and with the guest sum,
\* the night sum and both means each rounded to 2 decimals.
C2_RoundedSums ==
    Analysed =>
        /\ OneRowPerCountry
        /\ CountsAndMeans
        /\ \A k \in DOMAIN CountryData :
              /\ IsRoundedTo2(CountryData[k].Total_Guests,
                              ExactSum(CountryData[k].country, "guests"), 1)
              /\ IsRoundedTo2(CountryData[k].Total_Nights,
                              ExactSum(CountryData[k].country, "nights"), 1)
        /\ Scenario1Holds

C2_Witness ==
    /\ pcA = "done"
    /\ Analysed
    /\ dfA = Scenario1

Descending ==
    \A i, j \in DOMAIN CountryData :
        i < j => CountryData[i].Total_Bookings >= CountryData[j].Total_Bookings

TopIsFirst ==
    /\ Analysed /\ CountryData # <<>> => analysis.top_country = CountryData[1].country
    /\ \A cd \in SortValuesDesc(Grouped(<<>>)) : Analysis(<<>>, cd).top_country = "N/A"

\* C3 as stated: descending by count, equal counts in group order (stable),
\* top_country the country of the first row, or "N/A" for an empty table.
C3_StableRanking ==
    /\ Descending
    /\ \A i, j \in DOMAIN CountryData :
          (i < j /\ CountryData[i].Total_Bookings = CountryData[j].Total_Bookings)
              => CountryRank(CountryData[i].country) < CountryRank(CountryData[j].country)
    /\ TopIsFirst

\* C3 (amended): descending by count (the order among equal counts is not
\* fixed), top_country the country of the first row, or "N/A" for an empty table.
C3_Ranking ==
    /\ Descending
    /\ TopIsFirst

C3_Witness ==
    /\ pcA = "done"
    /\ Len(CountryData) = 2
    /\ CountryData[1].Total_Bookings > CountryData[2].Total_Bookings
    /\ CountryRank(CountryData[1].country) > CountryRank(CountryData[2].country)
    /\ analysis.top_country = CountryData[1].country

\* the rows of an upload with a country and two numeric values
ValidRows(rows) ==
    SelectSeq(rows, LAMBDA r :
        r.country # NA /\ r.guests.kind = "num" /\ r.nights.kind = "num")

\* C8: cleaning keeps exactly the rows with a country and numeric Guests and
\* Room Nights, unchanged; a non-numeric value is never kept as 0, raises no
\* error and enters no count or sum.
C8_NonNumericRowsDropped ==
    CleanedA =>
        /\ dfA = ValidRows(fileA.rows)
        /\ "error_processing" \notin Range(outA)
        /\ Analysed =>
              /\ analysis.total_bookings = Len(ValidRows(fileA.rows))
              /\ analysis.total_guests =
                    SumSeq([i \in DOMAIN ValidRows(fileA.rows) |->
                               ValidRows(fileA.rows)[i].guests.milli])

C8_Witness ==
    /\ pcA = "done"
    /\ Analysed
    /\ Len(dfA) = 2
    /\ \E i \in DOMAIN fileA.rows :
          fileA.rows[i].guests.kind = "text" /\ fileA.rows[i].country # NA

\* C9: when no row is left after cleaning, main() ends with the empty-dataset
\* error and analyze_booking_data is not called.
C9_EmptyAfterCleaning ==
    (CleanedA /\ dfA = <<>>) =>
        /\ pcA = "done"
        /\ outA = <<"error_empty">>
        /\ ~Analysed

C9_Witness ==
    /\ pcA = "done"
    /\ Len(fileA.rows) = 2
    /\ dfA = <<>>
    /\ outA = <<"error_empty">>

-----------------------------------------------------------------------------
(* Properties of pipeline B *)

UploadHasColumns == fileB.kind = "csv" /\ RequiredColumns \subseteq fileB.cols

\* process_data has returned
ProcessedB == pcB = "report" \/ (pcB = "done" /\ UploadHasColumns)

LabelOf(r) == r[TimeColumn(time_period)]

\* the labels of the uploaded rows and what they resolve to in either mode
AllLabels == {r.week : r \in RowPoolB} \cup {r.month : r \in RowPoolB}
WeekInstants == [l \in AllLabels |-> parse_week(l)]
MonthInstants == [l \in AllLabels |-> parse_month(l)]

InstantOf(label) ==
    IF time_period = "Week" THEN WeekInstants[label] ELSE MonthInstants[label]

\* the rows of the upload whose label resolves in the selected mode
RetainedRows == {i \in DOMAIN fileB.rows : InstantOf(LabelOf(fileB.rows[i])).ok}

RetainedLabels == {LabelOf(fileB.rows[i]) : i \in RetainedRows}

ObservedStatuses == {fileB.rows[i].status : i \in RetainedRows} \ {NA}

\* the whole text is `Week`, white space, digits, white space, four digits
WeekMatchFull(t) ==
    IF Len(t) < 4 \/ SubSeq(t, 1, 4) # WeekWord THEN [ok |-> FALSE]
    ELSE LET b == SpacesEnd(t, 5)
             c == DigitsEnd(t, b)
             d == SpacesEnd(t, c)
         IN  IF b > 5 /\ c > b /\ d > c /\ d + 3 = Len(t)
                 /\ \A k \in d..(d + 3) : IsDigit(t[k])
             THEN [ok |-> TRUE, week |-> ToInt(SubSeq(t, b, c - 1)),
                   year |-> ToInt(SubSeq(t, d, d + 3))]
             ELSE [ok |-> FALSE]

\* the label is `Week <int> <4-digit-year>` and nothing else, the week being
\* one that exists (0..53)
ConformingWeekLabel(label) ==
    /\ label # Missing
    /\ WeekMatchFull(Strip(label)).ok
    /\ WeekMatchFull(Strip(label)).week <= 53

\* C4 as stated: in Week mode only a label of the shape `Week <int> <4-digit-year>`
\* with a valid week resolves; the record of every other label is dropped by
\* process_data, and no exception reaches the caller.
C4_OnlyConformingWeeksResolve ==
    (ProcessedB /\ time_period = "Week") =>
        /\ \A i \in DOMAIN df_processed : ConformingWeekLabel(df_processed[i].week)
        /\ \A i \in DOMAIN fileB.rows :
              ~ConformingWeekLabel(fileB.rows[i].week) =>
                  /\ ~parse_week(fileB.rows[i].week).ok
                  /\ \A k \in DOMAIN pivot_table.index :
                        pivot_table.index[k] # fileB.rows[i].week
        /\ "error_processing" \notin Range(outB)

Scenario2 ==
    << RowB(L_W1,  L_MJan, "Confirmed"),
       RowB(L_W10, L_MMar, "Cancelled"),
       RowB(L_W1,  L_MJan, "Confirmed") >>

Scenario2Holds ==
    (fileB.rows = Scenario2 /\ time_period = "Month") =>
        /\ pivot_table.index = <<L_MJan, L_MMar>>
        /\ pivot_table.cells[L_MJan] = [st \in {"Confirmed", "Cancelled"} |->
                                           IF st = "Confirmed" THEN 2 ELSE 0]
        /\ pivot_table.cells[L_MMar] = [st \in {"Confirmed", "Cancelled"} |->
                                           IF st = "Confirmed" THEN 0 ELSE 1]

\* C5: with at least one retained record, the pivot has a cell for every
\* retained label and every observed status, holding the number of retained
\* records with that label and status, 0 when there is none.
C5_PivotCellsAreCounts ==
    (ProcessedB /\ RetainedRows # {}) =>
        /\ \A l \in RetainedLabels : \A st \in ObservedStatuses :
              /\ l \in DOMAIN pivot_table.cells
              /\ st \in DOMAIN pivot_table.cells[l]
              /\ pivot_table.cells[l][st] =
                    Cardinality({i \in RetainedRows :
                        LabelOf(fileB.rows[i]) = l /\ fileB.rows[i].status = st})
        /\ Scenario2Holds

C5_Witness ==
    /\ pcB = "done"
    /\ UploadHasColumns
    /\ fileB.rows = Scenario2
    /\ time_period = "Month"
    /\ pivot_table.cells[L_MMar]["Confirmed"] = 0

\* C6: in either mode every cell of the pivot is >= 0 and the instants of the
\* row labels are non-decreasing from the first row to the last.
C6_CellsNonNegativeRowsChronological ==
    ProcessedB =>
        /\ \A l \in DOMAIN pivot_table.cells : \A st \in DOMAIN pivot_table.cells[l] :
              pivot_table.cells[l][st] >= 0
        /\ \A i, j \in DOMAIN pivot_table.index :
              i < j => InstantOf(pivot_table.index[i]).ord
                          <= InstantOf(pivot_table.index[j]).ord

\* rows arrive later-first and the pivot has them earlier-first
C6_Witness ==
    /\ pcB = "done"
    /\ UploadHasColumns
    /\ time_period = "Week"
    /\ Len(pivot_table.index) = 3
    /\ Len(fileB.rows) = 3
    /\ parse_week(fileB.rows[1].week).ok
    /\ parse_week(fileB.rows[2].week).ok
    /\ parse_week(fileB.rows[1].week).ord > parse_week(fileB.rows[2].week).ord
    /\ InstantOf(pivot_table.index[1]).ord < InstantOf(pivot_table.index[3]).ord

\* C7 as stated: data rows of which none is left after time parsing end in the
\* no-valid-periods outcome, and a file with the required columns but no data
\* rows ends in another outcome.
C7_NoValidPeriodsIsDistinct ==
    (pcB = "done" /\ UploadHasColumns) =>
        /\ (fileB.rows # <<>> /\ RetainedRows = {})
              => "warning_no_valid_data" \in Range(outB)
        /\ fileB.rows = <<>>
              => "warning_no_valid_data" \notin Range(outB)

-----------------------------------------------------------------------------
(* Properties of both pipelines *)

FatalA == {"error_format", "error_empty"}
FatalB == {"error_columns", "warning_no_valid_data"}

\* C10: a run that ends in a fatal error (column shape or names, no row left
\* after cleaning, no label parsed) has emitted no metrics, table, chart or
\* export; a run emits the whole aggregate or nothing of it.
C10_NoPartialOutput ==
    /\ Range(outA) \cap FatalA # {} => Range(outA) \cap Range(RenderedA) = {}
    /\ Range(outA) \cap Range(RenderedA) # {} => Range(RenderedA) \subseteq Range(outA)
    /\ Range(outB) \cap FatalB # {} => Range(outB) \cap Range(RenderedB) = {}
    /\ Range(outB) \cap Range(RenderedB) # {} => Range(RenderedB) \subseteq Range(outB)
    /\ (pcA = "done" /\ Range(outA) \cap Range(RenderedA) = {})
          => Range(outA) \cap (FatalA \cup {"error_processing"}) # {}
    /\ (pcB = "done" /\ fileB # NoFile /\ Range(outB) \cap Range(RenderedB) = {})
          => Range(outB) \cap (FatalB \cup {"error_processing"}) # {}

C10_Witness ==
    /\ pcB = "done"
    /\ UploadHasColumns
    /\ Len(fileB.rows) = 2
    /\ "warning_no_valid_data" \in Range(outB)
    /\ Range(outB) \cap Range(RenderedB) = {}

-----------------------------------------------------------------------------
(* Further properties of pipeline B *)

\* the position in the upload of the first retained row that carries the label
FirstOccurrence(l) ==
    CHOOSE i \in RetainedRows :
        /\ LabelOf(fileB.rows[i]) = l
        /\ \A j \in RetainedRows : LabelOf(fileB.rows[j]) = l => i <= j

\* every retained label is the label of exactly one row of a non-empty pivot
OneRowPerLabel ==
    ~IsEmptyFrame(pivot_table) =>
        /\ Range(pivot_table.index) = RetainedLabels
        /\ \A i, j \in DOMAIN pivot_table.index :
              i # j => pivot_table.index[i] # pivot_table.index[j]

C12_EmptyPivotIffNoLabel ==
    ProcessedB =>
        /\ IsEmptyFrame(pivot_table) <=> RetainedRows = {}
        /\ RetainedLabels \subseteq Range(pivot_table.index)
        /\ (pcB = "done" /\ RetainedRows # {})
              => "warning_no_valid_data" \notin Range(outB)

\* the sum of the values of a function with a finite domain
RECURSIVE SumFun(_)
SumFun(f) ==
    IF DOMAIN f = {} THEN 0
    ELSE LET x == CHOOSE x \in DOMAIN f : TRUE
         IN  f[x] + SumFun([y \in DOMAIN f \ {x} |-> f[y]])

\* the sum of all cells of the pivot
PivotTotal ==
    SumFun([l \in DOMAIN pivot_table.cells |-> SumFun(pivot_table.cells[l])])

RetainedWithStatus == {i \in RetainedRows : fileB.rows[i].status # NA}

\* C13 as stated: the cells of the pivot add up to the number of retained
\* records, the rows of the processed table, also when a retained record has
\* no booking status.
C13_CellsSumToRetained ==
    ProcessedB =>
        /\ PivotTotal = Cardinality(RetainedRows)
        /\ Len(df_processed) = Cardinality(RetainedRows)

\* C13 (amended): the cells of the pivot add up to the number of retained
\* records that have a booking status; the processed table has one row for
\* every retained record.
C13_CellsSumToRetainedWithStatus ==
    ProcessedB =>
        /\ PivotTotal = Cardinality(RetainedWithStatus)
        /\ Len(df_processed) = Cardinality(RetainedRows)

C13_Witness ==
    /\ pcB = "done"
    /\ UploadHasColumns
    /\ Len(df_processed) = 3
    /\ PivotTotal = 2
    /\ Cardinality(pivot_table.columns) = 2

\* the sum of the pivot column of a status
PivotColumnTotal(st) ==
    SumFun([l \in DOMAIN pivot_table.cells |-> pivot_table.cells[l][st]])

\* C14 as stated: after a successful run the total and the per-status totals
\* of the summary are those of the records behind the pivot and the donut
\* chart; a record dropped as unparseable is counted in none of them.
C14_SummaryOverRetainedRecords ==
    statsB.kind = "stats" =>
        /\ statsB.total_bookings = statsB.donut_total
        /\ statsB.total_bookings = Cardinality(RetainedRows)
        /\ statsB.status_totals = statsB.donut_totals
        /\ \A st \in DOMAIN statsB.status_totals :
              /\ st \in pivot_table.columns
              /\ statsB.status_totals[st] = PivotColumnTotal(st)

\* C15 as stated: the upload prompt is emitted if and only if no file has been
\* uploaded.
C15_PromptOnlyWithoutUpload ==
    pcB = "done" =>
        ("info_upload_prompt" \in Range(outB) <=> fileB = NoFile)

=============================================================================
